---- MODULE Spec2Model ----
(***************************************************************************)
(* House design assistant (backend/main.py).                               *)
(*                                                                         *)
(* Texts are TLA+ strings holding the program's own literals; Len, \o and  *)
(* SubSeq act on them character by character.  The two module-level dicts  *)
(* STYLE_KEYWORDS and STYLE_PACKAGES are state (style_keywords,            *)
(* style_packages): Python dicts and lists are mutable objects, and a      *)
(* DesignProposal refers to the lists of the package table, it does not    *)
(* copy them.                                                              *)
(***************************************************************************)
EXTENDS Integers, Sequences, FiniteSets, TLC

VARIABLES style_keywords, style_packages, args, inputs, scores, proposal, stdout, pc

vars == <<style_keywords, style_packages, args, inputs, scores, proposal, stdout, pc>>

(***************************************************************************)
(* Python str operations                                                   *)
(***************************************************************************)

Char(s, i) == SubSeq(s, i, i)

UPPERCASE == "ABCDEFGHIJKLMNOPQRSTUVWXYZ"

LOWERCASE == "abcdefghijklmnopqrstuvwxyz"

DIGITS == "0123456789"

WHITESPACE == {" ", "\t", "\n", "\r"}

CharsOf(s) == {Char(s, i) : i \in 1..Len(s)}

UpperChars == CharsOf(UPPERCASE)

LowerChars == CharsOf(LOWERCASE)

DigitChars == CharsOf(DIGITS)

\* The letters: ASCII, and the one other letter of the program's literals ("façade").
LetterChars == UpperChars \cup LowerChars \cup {"ç"}

ToLower ==
    [c \in UpperChars |->
        Char(LOWERCASE, CHOOSE i \in 1..Len(UPPERCASE) : Char(UPPERCASE, i) = c)]

ToUpper ==
    [c \in LowerChars |->
        Char(UPPERCASE, CHOOSE i \in 1..Len(LOWERCASE) : Char(LOWERCASE, i) = c)]

IsUpper(c) == c \in UpperChars

IsLower(c) == c \in LowerChars

IsDigit(c) == c \in DigitChars

IsLetter(c) == c \in LetterChars

LowerChar(c) == IF IsUpper(c) THEN ToLower[c] ELSE c

UpperChar(c) == IF IsLower(c) THEN ToUpper[c] ELSE c

RECURSIVE ConcatRange(_, _, _)
\* "".join(parts[lo-1:hi]), by halves.
ConcatRange(parts, lo, hi) ==
    IF lo > hi THEN ""
    ELSE IF lo = hi THEN parts[lo]
    ELSE ConcatRange(parts, lo, (lo + hi) \div 2)
             \o ConcatRange(parts, ((lo + hi) \div 2) + 1, hi)

Concat(parts) == ConcatRange(parts, 1, Len(parts))

\* str.lower()
Lower(s) == Concat([i \in 1..Len(s) |-> LowerChar(Char(s, i))])

\* keyword in combined
Contains(text, sub) ==
    \E i \in 0..(Len(text) - Len(sub)) : SubSeq(text, i + 1, i + Len(sub)) = sub

RECURSIVE Join(_, _)
\* sep.join(items)
Join(sep, items) ==
    IF items = <<>> THEN ""
    ELSE IF Len(items) = 1 THEN items[1]
    ELSE items[1] \o sep \o Join(sep, Tail(items))

\* str.strip(): from the first to the last character that is not whitespace.
Strip(s) ==
    LET kept == {i \in 1..Len(s) : Char(s, i) \notin WHITESPACE}
    IN  IF kept = {} THEN ""
        ELSE SubSeq(s, CHOOSE i \in kept : \A j \in kept : i <= j,
                       CHOOSE i \in kept : \A j \in kept : i >= j)

\* s.find(",", i - 1) + 1: the first comma at position i or later, or 0.
FindComma(s, i) ==
    LET commas == {j \in i..Len(s) : Char(s, j) = ","}
    IN  IF commas = {} THEN 0 ELSE CHOOSE j \in commas : \A k \in commas : j <= k

RECURSIVE SplitFrom(_, _)
\* The segments of s from position i on.
SplitFrom(s, i) ==
    LET j == FindComma(s, i)
    IN  IF j = 0 THEN <<SubSeq(s, i, Len(s))>>
        ELSE <<SubSeq(s, i, j - 1)>> \o SplitFrom(s, j + 1)

\* str.split(",")
Split(s) == SplitFrom(s, 1)

\* str.title(): a letter that follows a letter in lower case, every other
\* letter in upper case.
Title(s) ==
    Concat([i \in 1..Len(s) |->
               IF i > 1 /\ IsLetter(Char(s, i - 1))
               THEN LowerChar(Char(s, i))
               ELSE UpperChar(Char(s, i))])

\* c * n
Repeat(c, n) == Concat([i \in 1..n |-> c])

RECURSIVE DecimalDigits(_)
\* str(n) of an int n >= 0
DecimalDigits(n) ==
    IF n < 10 THEN Char(DIGITS, n + 1)
    ELSE DecimalDigits(n \div 10) \o Char(DIGITS, (n % 10) + 1)

(***************************************************************************)
(* Python float: the values used are dyadic rationals (-1)^neg * num/den,  *)
(* which binary floating point holds and multiplies exactly; the sign is   *)
(* kept apart because 0.0 and -0.0 are different floats.                   *)
(***************************************************************************)

Float(neg, num, den) == [neg |-> neg, num |-> num, den |-> den]

\* plot.width_m * plot.depth_m
FloatMul(a, b) == Float(a.neg # b.neg, a.num * b.num, a.den * b.den)

\* f"{x:.0f}": round to the nearest integer, halves to the even one; a
\* negative value keeps its sign even when it rounds to zero.
FormatF0(x) ==
    LET q == x.num \div x.den
        r == x.num % x.den
        n == IF 2 * r < x.den THEN q
             ELSE IF 2 * r > x.den THEN q + 1
             ELSE IF q % 2 = 0 THEN q ELSE q + 1
    IN  (IF x.neg THEN "-" ELSE "") \o DecimalDigits(n)

(***************************************************************************)
(* The module-level tables.  A dict keeps its insertion order, so a table  *)
(* is the sequence of its items.                                           *)
(***************************************************************************)

STYLE_KEYWORDS ==
    << [style |-> "modern",
        keywords |-> <<"modern", "minimal", "clean lines", "glass", "sleek">>],
       [style |-> "farmhouse",
        keywords |-> <<"farmhouse", "rustic", "barn", "country", "cozy">>],
       [style |-> "contemporary",
        keywords |-> <<"contemporary", "open concept", "bright", "bold">>],
       [style |-> "traditional",
        keywords |-> <<"traditional", "classic", "timeless", "formal">>],
       [style |-> "coastal",
        keywords |-> <<"coastal", "beach", "light", "airy", "ocean">>],
       [style |-> "craftsman",
        keywords |-> <<"craftsman", "handmade", "wood", "detail", "broad porch">>] >>

STYLE_PACKAGES ==
    << [style |-> "modern",
        exterior |-> << "Standing seam metal roof in charcoal",
                        "Smooth stucco with dark fiber-cement accent panels",
                        "Black anodized aluminum windows" >>,
        interior |-> << "Matte engineered oak flooring",
                        "Flat-panel cabinetry in warm walnut and soft white",
                        "Large-format porcelain tile in wet areas" >>,
        features |-> << "Double-height living room glazing",
                        "Hidden pantry wall",
                        "Integrated linear fireplace" >>],
       [style |-> "farmhouse",
        exterior |-> << "Board-and-batten siding in off-white",
                        "Gable roof with black architectural shingles",
                        "Natural stone skirt at base and porch columns" >>,
        interior |-> << "Wide-plank white oak floors",
                        "Shaker cabinetry with brass hardware",
                        "Apron-front kitchen sink with bridge faucet" >>,
        features |-> << "Wrap-around front porch",
                        "Mudroom with built-in cubbies",
                        "Exposed reclaimed wood ceiling beams" >>],
       [style |-> "contemporary",
        exterior |-> << "Mixed cladding: fiber-cement, wood-look panels, and stone",
                        "Asymmetrical massing with strong horizontal lines",
                        "Dark bronze window frames" >>,
        interior |-> << "Neutral polished concrete or microcement floors",
                        "High-gloss lacquer and veneer cabinet mix",
                        "Statement staircase with glass balustrade" >>,
        features |-> << "Skylight strip over circulation spine",
                        "Flexible home office / guest suite",
                        "Smart lighting scenes and occupancy controls" >>],
       [style |-> "traditional",
        exterior |-> << "Painted brick with stone lintel detailing",
                        "Symmetrical façade and multi-light windows",
                        "Slate-look roof and classic cornice profile" >>,
        interior |-> << "Herringbone wood flooring in main hall",
                        "Raised-panel cabinetry",
                        "Crown molding and paneled feature walls" >>,
        features |-> << "Formal dining room with butler pantry",
                        "Library / study with built-ins",
                        "Generous foyer with central stair" >>],
       [style |-> "coastal",
        exterior |-> << "Light horizontal lap siding in sand tone",
                        "White trim and composite shutters",
                        "Metal roof accents over porches" >>,
        interior |-> << "Bleached oak flooring",
                        "Soft blue-gray cabinetry accents",
                        "Textured handmade-look ceramic backsplash" >>,
        features |-> << "Indoor-outdoor sliding wall",
                        "Covered lanai with summer kitchen",
                        "Window benches for view-focused seating" >>],
       [style |-> "craftsman",
        exterior |-> << "Tapered porch columns on stone piers",
                        "Earth-tone shingle + lap siding combination",
                        "Deep overhangs with exposed rafter tails" >>,
        interior |-> << "Quarter-sawn oak floors and trim",
                        "Built-in benches and bookcases",
                        "Artisan tile around fireplace and kitchen" >>,
        features |-> << "Defined entry with covered porch",
                        "Window seat nooks",
                        "Handcrafted millwork and door casings" >>] >>

HasKey(table, key) == \E i \in 1..Len(table) : table[i].style = key

\* table[key]; a key the table lacks raises KeyError.
Lookup(table, key) == table[CHOOSE i \in 1..Len(table) : table[i].style = key]

(***************************************************************************)
(* The dataclasses.  A list field of a DesignProposal either refers to a   *)
(* list of the package table (propose stores package["exterior"] itself)   *)
(* or holds a list made for this proposal.                                 *)
(***************************************************************************)

PlotDetails(width_m, depth_m, slope, climate, orientation) ==
    [width_m |-> width_m, depth_m |-> depth_m, slope |-> slope,
     climate |-> climate, orientation |-> orientation]

UserInputs(brief, image_descriptions, required_rooms, plot) ==
    [brief |-> brief, image_descriptions |-> image_descriptions,
     required_rooms |-> required_rooms, plot |-> plot]

DefaultPlot == PlotDetails(Float(FALSE, 15, 1), Float(FALSE, 30, 1),
                           "flat", "temperate", "north-facing street")

DefaultRooms == <<"3 bedrooms", "2 bathrooms">>

TableList(style, key) == [shared |-> TRUE, style |-> style, key |-> key, items |-> <<>>]

OwnList(items) == [shared |-> FALSE, style |-> "", key |-> "", items |-> items]

\* The items of a list field, read through the reference.
Items(list) ==
    IF list.shared THEN Lookup(style_packages, list.style)[list.key] ELSE list.items

DesignProposal(style, confidence, exterior, interior, features, site, rooms) ==
    [selected_style |-> style, style_confidence |-> confidence,
     exterior_finishes |-> exterior, interior_finishes |-> interior,
     suggested_features |-> features, site_strategy |-> site,
     room_planning_notes |-> rooms]

(***************************************************************************)
(* HouseDesignAssistant                                                    *)
(***************************************************************************)

\* Mutant of Combined: only the first image description is read.
CombinedFirstImage(brief, image_descriptions) ==
    Lower(brief \o " "
              \o (IF image_descriptions = <<>> THEN "" ELSE Head(image_descriptions)))

\* combined = f"{brief} {' '.join(image_descriptions)}".lower()
Combined(brief, image_descriptions) ==
    Lower(brief \o " " \o Join(" ", image_descriptions))

\* The number of places of text at which sub occurs.
Occurrences(text, sub) ==
    Cardinality({i \in 0..(Len(text) - Len(sub)) : SubSeq(text, i + 1, i + Len(sub)) = sub})

RECURSIVE CountOccurrences(_, _)
\* Mutant of CountHits: every occurrence of a keyword counts.
CountOccurrences(keywords, combined) ==
    IF keywords = <<>> THEN 0
    ELSE Occurrences(combined, Head(keywords)) + CountOccurrences(Tail(keywords), combined)

RECURSIVE CountHits(_, _)
\* for keyword in keywords: if keyword in combined: scores[style] += 1
CountHits(keywords, combined) ==
    IF keywords = <<>> THEN 0
    ELSE (IF Contains(combined, Head(keywords)) THEN 1 ELSE 0)
             + CountHits(Tail(keywords), combined)

\* The scores dict after the two loops, in the order of STYLE_KEYWORDS.
Scores(brief, image_descriptions) ==
    LET combined == Combined(brief, image_descriptions)
    IN  [i \in 1..Len(style_keywords) |->
            [style |-> style_keywords[i].style,
             score |-> CountHits(style_keywords[i].keywords, combined)]]

RECURSIVE MaxFromLast(_, _, _)
\* Mutant of MaxFrom: a key with an equal score replaces the best one.
MaxFromLast(sc, i, best) ==
    IF i > Len(sc) THEN sc[best].style
    ELSE MaxFromLast(sc, i + 1, IF sc[i].score >= sc[best].score THEN i ELSE best)

RECURSIVE MaxFrom(_, _, _)
\* max(scores, key=scores.get): the iteration keeps the first key and replaces
\* it only by a key with a strictly greater score.
MaxFrom(sc, i, best) ==
    IF i > Len(sc) THEN sc[best].style
    ELSE MaxFrom(sc, i + 1, IF sc[i].score > sc[best].score THEN i ELSE best)

BestStyle(sc) == MaxFrom(sc, 2, 1)

ScoreOf(sc, style) == (Lookup(sc, style)).score

\* Mutant of StyleOfScores: no default when nothing matched.
StyleOfScoresNoDefault(sc) == BestStyle(sc)

\* Mutant of StyleOfScores: a default that is no key of the package table.
StyleOfScoresUnknownDefault(sc) ==
    IF ScoreOf(sc, BestStyle(sc)) = 0 THEN "transitional" ELSE BestStyle(sc)

\* best_style = max(scores, key=scores.get), and the default for a zero maximum.
StyleOfScores(sc) ==
    LET best_style == BestStyle(sc)
    IN  IF ScoreOf(sc, best_style) = 0 THEN "contemporary" ELSE best_style

infer_style(brief, image_descriptions) ==
    StyleOfScores(Scores(brief, image_descriptions))

\* Mutant of site_strategy: a flat plot gets a slope note of its own.
site_strategy_flat_branch(plot) ==
    LET area == FloatMul(plot.width_m, plot.depth_m)
    IN  << "Plot area is approximately " \o FormatF0(area)
               \o " m²; reserve 35-45% for landscaped open space.",
           "Align main living spaces for " \o plot.orientation
               \o " with controlled glazing for daylight comfort.",
           IF plot.slope = "flat"
           THEN "Use a flat slope strategy: slab on grade."
           ELSE "Use a " \o plot.slope
                    \o " slope strategy: stepped slab and drainage channels if not flat.",
           "Specify envelope and shading details suitable for " \o plot.climate
               \o " climate." >>

site_strategy(plot) ==
    LET area == FloatMul(plot.width_m, plot.depth_m)
    IN  << "Plot area is approximately " \o FormatF0(area)
               \o " m²; reserve 35-45% for landscaped open space.",
           "Align main living spaces for " \o plot.orientation
               \o " with controlled glazing for daylight comfort.",
           "Use a " \o plot.slope
               \o " slope strategy: stepped slab and drainage channels if not flat.",
           "Specify envelope and shading details suitable for " \o plot.climate
               \o " climate." >>

\* Mutant of room_planning_notes: the rooms are joined last to first.
room_planning_notes_reversed(required_rooms) ==
    LET n == Len(required_rooms)
        joined == Join(", ", [i \in 1..n |-> required_rooms[n + 1 - i]])
    IN  << "Prioritize adjacency planning for: " \o joined \o ".",
           "Keep kitchen, dining, and family spaces connected; isolate acoustic-sensitive spaces.",
           "Plan storage early: pantry, linen, utility, and integrated wardrobes." >>

room_planning_notes(required_rooms) ==
    LET joined == Join(", ", required_rooms)
    IN  << "Prioritize adjacency planning for: " \o joined \o ".",
           "Keep kitchen, dining, and family spaces connected; isolate acoustic-sensitive spaces.",
           "Plan storage early: pantry, linen, utility, and integrated wardrobes." >>

\* Mutant of Confidence: the brief decides.
ConfidenceByBrief(in) == IF Len(in.brief) > 0 THEN "high" ELSE "medium"

\* confidence = "high" if len(inputs.image_descriptions) > 0 else "medium"
Confidence(in) == IF Len(in.image_descriptions) > 0 THEN "high" ELSE "medium"

\* The DesignProposal propose builds for a style already inferred.
Assemble(in, style) ==
    DesignProposal(style,
                   Confidence(in),
                   TableList(style, "exterior"),
                   TableList(style, "interior"),
                   TableList(style, "features"),
                   OwnList(site_strategy(in.plot)),
                   OwnList(room_planning_notes(in.required_rooms)))

(***************************************************************************)
(* textwrap.fill(item, width=68, subsequent_indent='    '), with the       *)
(* defaults of TextWrapper: tabs expanded, whitespace replaced by spaces,  *)
(* words broken after hyphens, long words broken, whitespace dropped at    *)
(* the line ends.                                                          *)
(***************************************************************************)

FILL_WIDTH == 68

SUBSEQUENT_INDENT == "    "

TABSIZE == 8

\* [^\d\W], \w and [\w!"'&.,?] for the characters of the program's literals.
WordLetterChars == LetterChars \cup {"_", "²"}

WordChars == WordLetterChars \cup DigitChars

WordPunctChars == WordChars \cup {"!", "\"", "'", "&", ".", ",", "?"}

IsWordLetter(c) == c \in WordLetterChars

IsWordChar(c) == c \in WordChars

IsWordPunct(c) == c \in WordPunctChars

IsWs(c) == c \in WHITESPACE

At(s, i) == IF i >= 1 /\ i <= Len(s) THEN Char(s, i) ELSE ""

\* The column of position i, modulo the tab size: a tab ends on a tab stop
\* and a line break starts at column 0, so the column counts the characters
\* since the last of them.
TabColumn(s, i) ==
    LET stops == {j \in 1..(i - 1) : Char(s, j) \in {"\t", "\n", "\r"}}
        last == IF stops = {} THEN 0 ELSE CHOOSE j \in stops : \A k \in stops : j >= k
    IN  (i - 1 - last) % TABSIZE

\* str.expandtabs()
ExpandTabs(s) ==
    Concat([i \in 1..Len(s) |->
               IF Char(s, i) = "\t" THEN Repeat(" ", TABSIZE - TabColumn(s, i))
               ELSE Char(s, i)])

ReplaceWhitespace(s) ==
    Concat([i \in 1..Len(s) |-> IF IsWs(Char(s, i)) THEN " " ELSE Char(s, i)])

\* TextWrapper._munge_whitespace
MungeWhitespace(text) == ReplaceWhitespace(ExpandTabs(text))

RECURSIVE WsRunEnd(_, _)
\* The last position of the run of whitespace that starts at i.
WsRunEnd(s, i) == IF IsWs(At(s, i + 1)) THEN WsRunEnd(s, i + 1) ELSE i

RECURSIVE DashRunEnd(_, _)
\* The last position of the run of hyphens that starts at i.
DashRunEnd(s, i) == IF At(s, i + 1) = "-" THEN DashRunEnd(s, i + 1) ELSE i

\* -{2,}(?=\w) at position i
DashesThenWord(s, i) ==
    /\ At(s, i) = "-"
    /\ At(s, i + 1) = "-"
    /\ IsWordChar(At(s, DashRunEnd(s, i) + 1))

\* A hyphen at position h after which a word may be broken.
HyphenBreak(s, h) ==
    /\ At(s, h) = "-"
    /\ \/ IsWordLetter(At(s, h - 2)) /\ IsWordLetter(At(s, h - 1))
       \/ IsWordLetter(At(s, h - 3)) /\ At(s, h - 2) = "-" /\ IsWordLetter(At(s, h - 1))
    /\ IsWordLetter(At(s, h + 1))
    /\ \/ IsWordLetter(At(s, h + 2))
       \/ At(s, h + 2) = "-" /\ IsWordLetter(At(s, h + 3))

\* A word chunk may end with position x, its last character before the
\* hyphen it is broken after.
WordStop(s, x) ==
    \/ HyphenBreak(s, x + 1)
    \/ x >= Len(s)
    \/ IsWs(At(s, x + 1))
    \/ DashesThenWord(s, x + 1) /\ IsWordPunct(At(s, x))

\* The last position of the word chunk that starts at p: the shortest one.
WordEnd(s, p) ==
    LET x == CHOOSE x \in p..Len(s) :
                 WordStop(s, x) /\ \A y \in p..(x - 1) : ~WordStop(s, y)
    IN  IF HyphenBreak(s, x + 1) THEN x + 1 ELSE x

\* The last position of the chunk that starts at p (wordsep_re).
ChunkEnd(s, p) ==
    IF IsWs(Char(s, p)) THEN WsRunEnd(s, p)
    ELSE IF p > 1 /\ DashesThenWord(s, p) /\ IsWordPunct(At(s, p - 1))
         THEN DashRunEnd(s, p)
    ELSE WordEnd(s, p)

RECURSIVE SplitChunks(_, _)
\* TextWrapper._split
SplitChunks(s, p) ==
    IF p > Len(s) THEN <<>>
    ELSE LET e == ChunkEnd(s, p)
         IN  <<SubSeq(s, p, e)>> \o SplitChunks(s, e + 1)

RECURSIVE TakeFitting(_, _, _)
\* How many chunks from the front fit into the room left on the line.
TakeFitting(chunks, n, room) ==
    IF n < Len(chunks) /\ Len(chunks[n + 1]) <= room
    THEN TakeFitting(chunks, n + 1, room - Len(chunks[n + 1]))
    ELSE n

RECURSIVE LastIndexOf(_, _, _)
\* chunk.rfind(c, 0, end): a position from 0, or -1.
LastIndexOf(chunk, c, end) ==
    IF end <= 0 THEN -1
    ELSE IF end <= Len(chunk) /\ Char(chunk, end) = c THEN end - 1
    ELSE LastIndexOf(chunk, c, end - 1)

\* TextWrapper._handle_long_word: how many characters of the chunk go on the line.
LongWordCut(chunk, width, cur_len) ==
    LET space_left == IF width < 1 THEN 1 ELSE width - cur_len
        hyphen == LastIndexOf(chunk, "-", space_left)
    IN  IF /\ Len(chunk) > space_left
           /\ hyphen > 0
           /\ \E i \in 1..hyphen : Char(chunk, i) # "-"
        THEN hyphen + 1
        ELSE space_left

RECURSIVE WrapChunks(_, _)
\* TextWrapper._wrap_chunks
WrapChunks(chunks, lines) ==
    IF chunks = <<>> THEN lines
    ELSE LET indent == IF lines # <<>> THEN SUBSEQUENT_INDENT ELSE ""
             width == FILL_WIDTH - Len(indent)
             ch == IF Strip(chunks[1]) = "" /\ lines # <<>> THEN Tail(chunks) ELSE chunks
             n == TakeFitting(ch, 0, width)
             taken == SubSeq(ch, 1, n)
             left == SubSeq(ch, n + 1, Len(ch))
             long == left # <<>> /\ Len(left[1]) > width
             cut == IF long THEN LongWordCut(left[1], width, Len(Join("", taken))) ELSE 0
             line1 == IF long THEN Append(taken, SubSeq(left[1], 1, cut)) ELSE taken
             left1 == IF long
                      THEN <<SubSeq(left[1], cut + 1, Len(left[1]))>> \o Tail(left)
                      ELSE left
             cur_line == IF line1 # <<>> /\ Strip(line1[Len(line1)]) = ""
                         THEN SubSeq(line1, 1, Len(line1) - 1)
                         ELSE line1
         IN  WrapChunks(left1,
                        IF cur_line # <<>>
                        THEN Append(lines, indent \o Join("", cur_line))
                        ELSE lines)

\* fill(item, width=68, subsequent_indent='    ')
Fill(text) == Join("\n", WrapChunks(SplitChunks(MungeWhitespace(text), 1), <<>>))

(***************************************************************************)
(* Rendering.  stdout holds the arguments of the print calls made for the  *)
(* current request, one entry per call.                                    *)
(***************************************************************************)

RULE_WIDTH == 72

\* The sections dict of pretty_print, in its order.
Sections(p) ==
    << [title |-> "Exterior Finishes", items |-> Items(p.exterior_finishes)],
       [title |-> "Interior Finishes", items |-> Items(p.interior_finishes)],
       [title |-> "Suggested Features", items |-> Items(p.suggested_features)],
       [title |-> "Site Strategy", items |-> Items(p.site_strategy)],
       [title |-> "Room Planning Notes", items |-> Items(p.room_planning_notes)] >>

RECURSIVE PrintItems(_)
PrintItems(items) ==
    IF items = <<>> THEN <<>>
    ELSE <<"  - " \o Fill(Head(items))>> \o PrintItems(Tail(items))

RECURSIVE PrintSections(_)
PrintSections(sections) ==
    IF sections = <<>> THEN <<>>
    ELSE <<"\n" \o Head(sections).title \o ":">>
             \o PrintItems(Head(sections).items)
             \o PrintSections(Tail(sections))

\* What pretty_print(p) prints.
PrettyLines(p) ==
    << "\nHOUSE DESIGN PROPOSAL",
       Repeat("=", RULE_WIDTH),
       "Style: " \o Title(p.selected_style)
           \o " (confidence: " \o p.style_confidence \o ")" >>
        \o PrintSections(Sections(p))

\* dataclasses.asdict: the fields in their order, every list copied.
AsDict(p) ==
    << [key |-> "selected_style", str |-> TRUE, value |-> p.selected_style, items |-> <<>>],
       [key |-> "style_confidence", str |-> TRUE, value |-> p.style_confidence, items |-> <<>>],
       [key |-> "exterior_finishes", str |-> FALSE, value |-> "", items |-> Items(p.exterior_finishes)],
       [key |-> "interior_finishes", str |-> FALSE, value |-> "", items |-> Items(p.interior_finishes)],
       [key |-> "suggested_features", str |-> FALSE, value |-> "", items |-> Items(p.suggested_features)],
       [key |-> "site_strategy", str |-> FALSE, value |-> "", items |-> Items(p.site_strategy)],
       [key |-> "room_planning_notes", str |-> FALSE, value |-> "", items |-> Items(p.room_planning_notes)] >>

JsonEscapeChar(c) ==
    CASE c = "\"" -> "\\\""
      [] c = "\\" -> "\\\\"
      [] c = "\n" -> "\\n"
      [] c = "\r" -> "\\r"
      [] c = "\t" -> "\\t"
      [] c = "²"  -> "\\u00b2"
      [] c = "ç"  -> "\\u00e7"
      [] OTHER    -> c

JsonEscape(s) == Concat([i \in 1..Len(s) |-> JsonEscapeChar(Char(s, i))])

\* json.dumps of a str (ensure_ascii)
JsonString(s) == "\"" \o JsonEscape(s) \o "\""

RECURSIVE JsonItems(_)
JsonItems(items) ==
    IF items = <<>> THEN <<>>
    ELSE <<"    " \o JsonString(Head(items))>> \o JsonItems(Tail(items))

JsonList(items) ==
    IF items = <<>> THEN "[]"
    ELSE "[\n" \o Join(",\n", JsonItems(items)) \o "\n  ]"

RECURSIVE JsonMembers(_)
JsonMembers(d) ==
    IF d = <<>> THEN <<>>
    ELSE LET m == Head(d)
         IN  <<"  " \o JsonString(m.key) \o ": "
                    \o (IF m.str THEN JsonString(m.value) ELSE JsonList(m.items))>>
                 \o JsonMembers(Tail(d))

\* json.dumps(d, indent=2)
JsonDumps(d) == "{\n" \o Join(",\n", JsonMembers(d)) \o "\n}"

(***************************************************************************)
(* main: the command line                                                  *)
(***************************************************************************)

RECURSIVE StripKeepBlank(_)
\* Mutant of StripNonEmpty: [s.strip() for s in segments if s]
StripKeepBlank(segments) ==
    IF segments = <<>> THEN <<>>
    ELSE (IF Head(segments) # "" THEN <<Strip(Head(segments))>> ELSE <<>>)
             \o StripKeepBlank(Tail(segments))

RECURSIVE StripNonEmpty(_)
\* [s.strip() for s in segments if s.strip()]
StripNonEmpty(segments) ==
    IF segments = <<>> THEN <<>>
    ELSE (IF Strip(Head(segments)) # "" THEN <<Strip(Head(segments))>> ELSE <<>>)
             \o StripNonEmpty(Tail(segments))

ParseList(arg) == StripNonEmpty(Split(arg))

Namespace(brief, images, rooms, plot_width, plot_depth, slope, climate, orientation, json) ==
    [brief |-> brief, images |-> images, rooms |-> rooms, plot_width |-> plot_width,
     plot_depth |-> plot_depth, slope |-> slope, climate |-> climate,
     orientation |-> orientation, json |-> json]

\* parse_args() with --brief alone: the defaults of the other options.
DefaultArgs(brief) ==
    Namespace(brief, "", "3 bedrooms,2 bathrooms,open kitchen,living room",
              Float(FALSE, 15, 1), Float(FALSE, 30, 1),
              "flat", "temperate", "north-facing street", FALSE)

InputsOfArgs(a) ==
    UserInputs(a.brief, ParseList(a.images), ParseList(a.rooms),
               PlotDetails(a.plot_width, a.plot_depth, a.slope, a.climate, a.orientation))

(***************************************************************************)
(* The inputs the specifications draw from.                                *)
(***************************************************************************)

MaxImages == 2

MaxRooms == 2

MaxArgLen == 3

SeqsUpTo(S, n) == UNION {[1..k -> S] : k \in 0..n}

RECURSIVE StringsOfLen(_, _)
StringsOfLen(chars, n) ==
    IF n = 0 THEN {""}
    ELSE {c \o t : c \in chars, t \in StringsOfLen(chars, n - 1)}

StringsUpTo(chars, n) == UNION {StringsOfLen(chars, k) : k \in 0..n}

BriefSamples ==
    { "", "a family home", "modern",
      "I want a modern minimal house with glass walls",
      "Classic and timeless, with a cozy country kitchen",
      "beach ocean MODERN", "glass glass glass", "informal dairy",
      "sleek and clean", "concept broad porch open" }

ImageSamples == {"clean", "lines", "Hardwood barn"}

StrangePlot == PlotDetails(Float(FALSE, 0, 1), Float(TRUE, 5, 2), "steep", "arid", "south")

\* UserInputs of the requests made of the assistant as a library.
RequestInputs ==
    { UserInputs(b, im, rp[1], rp[2]) :
        b \in BriefSamples,
        im \in SeqsUpTo(ImageSamples, MaxImages),
        rp \in {<<DefaultRooms, DefaultPlot>>, <<(<<>>), StrangePlot>>} }

RoomSamples == {"3 bedrooms", "2 bathrooms"}

\* 15, 0, -2.5, 0.5
WidthSamples ==
    {Float(FALSE, 15, 1), Float(FALSE, 0, 1), Float(TRUE, 5, 2), Float(FALSE, 1, 2)}

\* 30, 1, -0.0, 3
DepthSamples ==
    {Float(FALSE, 30, 1), Float(FALSE, 1, 1), Float(TRUE, 0, 1), Float(FALSE, 3, 1)}

SlopeSamples == {"flat", "steep"}

ClimateSamples == {"temperate", "arid"}

OrientationSamples == {"north-facing street", "south"}

PlotSamples ==
    { PlotDetails(w, d, sl, cl, o) :
        w \in WidthSamples, d \in DepthSamples,
        sl \in SlopeSamples, cl \in ClimateSamples, o \in OrientationSamples }

\* UserInputs that vary the plot and the rooms.
SiteInputs ==
    { UserInputs("modern", <<>>, r, p) :
        r \in SeqsUpTo(RoomSamples, MaxRooms), p \in PlotSamples }

ArgChars == {"a", "B", ",", " "}

RoomsArgSamples ==
    {"3 bedrooms,2 bathrooms,open kitchen,living room", "", " \t,", "den\t, wc ,"}

\* The command lines: every --images string over a small alphabet.
CommandLines ==
    { [DefaultArgs("a family home") EXCEPT !.images = im, !.rooms = r, !.json = j] :
        im \in StringsUpTo(ArgChars, MaxArgLen), r \in RoomsArgSamples, j \in BOOLEAN }

(***************************************************************************)
(* State and actions.  pc is the place of the current request: "idle"      *)
(* before it, "inputs" with its UserInputs built, "proposed" with its      *)
(* DesignProposal, "printed" once rendered, "error" after an exception.    *)
(* scores keeps the dict infer_style computed for the request.             *)
(***************************************************************************)

NoArgs == DefaultArgs("")

NoInputs == UserInputs("", <<>>, <<>>, DefaultPlot)

NoProposal ==
    DesignProposal("", "", OwnList(<<>>), OwnList(<<>>), OwnList(<<>>),
                   OwnList(<<>>), OwnList(<<>>))

Init ==
    /\ style_keywords = STYLE_KEYWORDS
    /\ style_packages = STYLE_PACKAGES
    /\ args = NoArgs
    /\ inputs = NoInputs
    /\ scores = <<>>
    /\ proposal = NoProposal
    /\ stdout = <<>>
    /\ pc = "idle"

\* A caller builds the UserInputs of the next request.
StartRequest(in) ==
    /\ pc = "idle"
    /\ inputs' = in
    /\ pc' = "inputs"
    /\ UNCHANGED <<style_keywords, style_packages, args, scores, proposal, stdout>>

NewRequest == \E in \in RequestInputs : StartRequest(in)

NewSiteRequest == \E in \in SiteInputs : StartRequest(in)

\* main, up to the UserInputs it builds from the parsed arguments.
MainParse ==
    /\ pc = "idle"
    /\ \E a \in CommandLines :
          /\ args' = a
          /\ inputs' = InputsOfArgs(a)
    /\ pc' = "inputs"
    /\ UNCHANGED <<style_keywords, style_packages, scores, proposal, stdout>>

\* assistant.propose(inputs)
Propose ==
    /\ pc = "inputs"
    /\ \E sc \in {Scores(inputs.brief, inputs.image_descriptions)} :
          /\ scores' = sc
          /\ \E style \in {StyleOfScores(sc)} :
                IF HasKey(style_packages, style)
                THEN proposal' = Assemble(inputs, style) /\ pc' = "proposed"
                ELSE proposal' = proposal /\ pc' = "error"
    /\ UNCHANGED <<style_keywords, style_packages, args, inputs, stdout>>

\* Mutant of PrettyPrint: the items are popped from the lists as they are
\* printed, and the finish lists are the package table's own.
PrettyPrintDraining ==
    /\ pc = "proposed"
    /\ stdout' = stdout \o PrettyLines(proposal)
    /\ style_packages' =
          [i \in 1..Len(style_packages) |->
              IF style_packages[i].style = proposal.selected_style
              THEN [style_packages[i] EXCEPT
                       !.exterior = <<>>, !.interior = <<>>, !.features = <<>>]
              ELSE style_packages[i]]
    /\ proposal' = [proposal EXCEPT !.site_strategy = OwnList(<<>>),
                                    !.room_planning_notes = OwnList(<<>>)]
    /\ pc' = "printed"
    /\ UNCHANGED <<style_keywords, args, inputs, scores>>

\* pretty_print(proposal)
PrettyPrint ==
    /\ pc = "proposed"
    /\ stdout' = stdout \o PrettyLines(proposal)
    /\ pc' = "printed"
    /\ UNCHANGED <<style_keywords, style_packages, args, inputs, scores, proposal>>

\* print(json.dumps(asdict(proposal), indent=2))
JsonPrint ==
    /\ pc = "proposed"
    /\ stdout' = Append(stdout, JsonDumps(AsDict(proposal)))
    /\ pc' = "printed"
    /\ UNCHANGED <<style_keywords, style_packages, args, inputs, scores, proposal>>

\* main, after propose: the --json flag picks the rendering.
MainPrint ==
    /\ IF args.json THEN JsonPrint ELSE PrettyPrint

\* The caller drops the objects of a rendered request; the module-level
\* tables stay.
EndRequest ==
    /\ pc = "printed"
    /\ inputs' = NoInputs
    /\ scores' = <<>>
    /\ proposal' = NoProposal
    /\ stdout' = <<>>
    /\ pc' = "idle"
    /\ UNCHANGED <<style_keywords, style_packages, args>>

Next == NewRequest \/ Propose \/ PrettyPrint \/ JsonPrint \/ EndRequest

Spec == Init /\ [][Next]_vars

NextSite == NewSiteRequest \/ Propose \/ PrettyPrint \/ JsonPrint \/ EndRequest

SpecSite == Init /\ [][NextSite]_vars

NextMain == MainParse \/ Propose \/ MainPrint

SpecMain == Init /\ [][NextMain]_vars

(***************************************************************************)
(* Properties                                                              *)
(***************************************************************************)

\* The request has its proposal.
Proposed == pc \in {"proposed", "printed"}

\* The six styles in the order of the keyword table.
TableOrder == <<"modern", "farmhouse", "contemporary", "traditional", "coastal", "craftsman">>

\* The lowercased text of brief, a space, and the descriptions joined by spaces.
TextOf(brief, image_descriptions) == Lower(brief \o " " \o Join(" ", image_descriptions))

RequestText == TextOf(inputs.brief, inputs.image_descriptions)

KeywordsOf(i) == STYLE_KEYWORDS[i].keywords

\* The keywords of style i that occur in text.
Matched(i, text) == {k \in 1..Len(KeywordsOf(i)) : Contains(text, KeywordsOf(i)[k])}

NoKeywordIn(text) == \A i \in 1..Len(STYLE_KEYWORDS) : Matched(i, text) = {}

MaxMatched(text) ==
    LET counts == {Cardinality(Matched(i, text)) : i \in 1..Len(STYLE_KEYWORDS)}
    IN  CHOOSE m \in counts : \A c \in counts : m >= c

\* The styles whose count is the maximum, by their place in the table.
TopStyles(text) ==
    LET counts == [i \in 1..Len(STYLE_KEYWORDS) |-> Cardinality(Matched(i, text))]
    IN  {i \in 1..Len(STYLE_KEYWORDS) : \A j \in 1..Len(STYLE_KEYWORDS) : counts[i] >= counts[j]}

\* C1: when no keyword of any style occurs in the lowercased combined text,
\* the style returned is "contemporary", not the first style of the table.
C1_NoKeywordGivesContemporary ==
    Proposed =>
        \A text \in {RequestText} :
            NoKeywordIn(text) => proposal.selected_style = "contemporary"

C1_Witness ==
    /\ pc = "proposed"
    /\ inputs.brief = "a family home"
    /\ Len(inputs.image_descriptions) = 0
    /\ NoKeywordIn(RequestText)
    /\ BestStyle(scores) = "modern"
    /\ proposal.selected_style = "contemporary"

\* C2: when the maximum score is above zero, the style returned is the first
\* in table order among the styles whose score is the maximum.
C2_FirstOfTheTopStyles ==
    Proposed =>
        \A text \in {RequestText} :
            MaxMatched(text) > 0 =>
                \A top \in {TopStyles(text)} :
                    \E first \in top :
                        /\ \A j \in top : first <= j
                        /\ proposal.selected_style = TableOrder[first]

\* Farmhouse and traditional tie at two keywords each, ahead of modern.
C2_Witness ==
    /\ pc = "proposed"
    /\ TopStyles(RequestText) = {2, 4}
    /\ MaxMatched(RequestText) = 2
    /\ proposal.selected_style = "farmhouse"

ReorderingsOf(q) ==
    { [i \in 1..Len(q) |-> q[f[i]]] :
        f \in {g \in [1..Len(q) -> 1..Len(q)] :
                  \A a, b \in 1..Len(q) : a # b => g[a] # g[b]} }

HasSpace(keyword) == Contains(keyword, " ")

\* Style i's keywords with a space match alike in the two texts.
SpacedMatchAlike(t1, t2) ==
    \A i \in 1..Len(STYLE_KEYWORDS) :
        \A k \in 1..Len(KeywordsOf(i)) :
            HasSpace(KeywordsOf(i)[k]) =>
                (Contains(t1, KeywordsOf(i)[k]) <=> Contains(t2, KeywordsOf(i)[k]))

\* C3 as stated: every permutation of the image descriptions gives the same style.
C3_OrderIrrelevant ==
    pc = "proposed" =>
        \A q \in ReorderingsOf(inputs.image_descriptions) :
            infer_style(inputs.brief, q) = proposal.selected_style

\* C3 amended: in the texts of two permutations every keyword without a space
\* matches alike, and the style is the same whenever the keywords with a space
\* ("clean lines", "open concept", "broad porch") match alike too.
C3_OrderIrrelevantUpToSpacedKeywords ==
    pc = "proposed" =>
        \A q \in ReorderingsOf(inputs.image_descriptions) :
            \A t \in {TextOf(inputs.brief, q)}, text \in {RequestText} :
                /\ \A i \in 1..Len(STYLE_KEYWORDS) :
                       \A k \in 1..Len(KeywordsOf(i)) :
                           ~HasSpace(KeywordsOf(i)[k]) =>
                               (Contains(t, KeywordsOf(i)[k])
                                    <=> Contains(text, KeywordsOf(i)[k]))
                /\ SpacedMatchAlike(t, text) =>
                       infer_style(inputs.brief, q) = proposal.selected_style

\* Two descriptions, one with keywords of two styles, and their other order.
C3_Witness ==
    /\ pc = "proposed"
    /\ inputs.brief = ""
    /\ inputs.image_descriptions = <<"Hardwood barn", "clean">>
    /\ proposal.selected_style = "farmhouse"
    /\ infer_style("", <<"clean", "Hardwood barn">>) = "farmhouse"

\* C4: style_confidence is "high" exactly when there is at least one image
\* description and "medium" exactly when there is none, whatever the brief,
\* the descriptions' content, the rooms, the plot and the style.
C4_ConfidenceFromImageCount ==
    Proposed =>
        /\ proposal.style_confidence \in {"high", "medium"}
        /\ proposal.style_confidence = "high" <=> Len(inputs.image_descriptions) >= 1
        /\ proposal.style_confidence = "medium" <=> Len(inputs.image_descriptions) = 0

\* A brief with three keywords and no image gives "medium".
C4_Witness ==
    /\ pc = "proposed"
    /\ inputs.brief = "I want a modern minimal house with glass walls"
    /\ inputs.image_descriptions = <<>>
    /\ inputs.plot = StrangePlot
    /\ proposal.selected_style = "modern"
    /\ proposal.style_confidence = "medium"

StyleNames == {TableOrder[i] : i \in 1..Len(TableOrder)}

\* C5: the package lookup never fails: the style returned is one of the six
\* names, each key of the keyword table and the default are keys of the
\* package table, and the proposal's finishes and features are the lists stored
\* under the selected style.
C5_LookupNeverFails ==
    /\ pc # "error"
    /\ \A i \in 1..Len(style_keywords) : HasKey(style_packages, style_keywords[i].style)
    /\ HasKey(style_packages, "contemporary")
    /\ Proposed =>
          /\ proposal.selected_style \in StyleNames
          /\ LET package == Lookup(STYLE_PACKAGES, proposal.selected_style)
             IN  /\ Items(proposal.exterior_finishes) = package.exterior
                 /\ Items(proposal.interior_finishes) = package.interior
                 /\ Items(proposal.suggested_features) = package.features

C5_Witness ==
    /\ pc = "proposed"
    /\ proposal.selected_style = "craftsman"
    /\ Items(proposal.exterior_finishes)
           = << "Tapered porch columns on stone piers",
                "Earth-tone shingle + lap siding combination",
                "Deep overhangs with exposed rafter tails" >>
    /\ Items(proposal.suggested_features)[3] = "Handcrafted millwork and door casings"

\* C6: the two tables keep their initial values through every request and
\* rendering, and the proposal of a request, rendered or not, is the one
\* propose gives for its inputs.
C6_TablesAndProposalUntouched ==
    /\ style_keywords = STYLE_KEYWORDS
    /\ style_packages = STYLE_PACKAGES
    /\ Proposed =>
          \A style \in {infer_style(inputs.brief, inputs.image_descriptions)} :
              proposal = Assemble(inputs, style)

\* A rendered proposal whose finish lists are the table's own.
C6_Witness ==
    /\ pc = "printed"
    /\ Len(stdout) > 1
    /\ proposal.exterior_finishes.shared
    /\ proposal.selected_style = "coastal"
    /\ style_packages = STYLE_PACKAGES

SameFloat(a, b) == a.neg = b.neg /\ a.num * b.den = b.num * a.den

\* The plots that differ from plot in one field at most, and in width and depth.
NearPlots(plot) ==
    {[plot EXCEPT !.slope = sl] : sl \in SlopeSamples}
        \cup {[plot EXCEPT !.climate = cl] : cl \in ClimateSamples}
        \cup {[plot EXCEPT !.orientation = o] : o \in OrientationSamples}
        \cup {[plot EXCEPT !.width_m = w, !.depth_m = d] :
                 w \in WidthSamples, d \in DepthSamples}

\* C7: site_strategy gives four notes, area, orientation, slope, climate; the
\* area note depends on width * depth alone, and each other note is one fixed
\* template around its own field.
C7_FourSiteNotes ==
    Proposed =>
        LET plot == inputs.plot
            notes == Items(proposal.site_strategy)
        IN  /\ Len(notes) = 4
            /\ Contains(notes[1], "Plot area is approximately ")
            /\ notes[2] = "Align main living spaces for " \o plot.orientation
                              \o " with controlled glazing for daylight comfort."
            /\ notes[3] = "Use a " \o plot.slope
                              \o " slope strategy: stepped slab and drainage channels if not flat."
            /\ notes[4] = "Specify envelope and shading details suitable for "
                              \o plot.climate \o " climate."
            /\ \A other \in NearPlots(plot) :
                   LET notes2 == site_strategy(other)
                   IN  /\ SameFloat(FloatMul(other.width_m, other.depth_m),
                                    FloatMul(plot.width_m, plot.depth_m))
                              => notes2[1] = notes[1]
                       /\ other.orientation = plot.orientation => notes2[2] = notes[2]
                       /\ other.slope = plot.slope => notes2[3] = notes[3]
                       /\ other.climate = plot.climate => notes2[4] = notes[4]

\* A plot of -2.5 by 3 on a flat slope.
C7_Witness ==
    /\ pc = "proposed"
    /\ inputs.plot.width_m = Float(TRUE, 5, 2)
    /\ inputs.plot.depth_m = Float(FALSE, 3, 1)
    /\ inputs.plot.slope = "flat"
    /\ Items(proposal.site_strategy)[1]
           = "Plot area is approximately -8 m²; reserve 35-45% for landscaped open space."

\* C8: room_planning_notes gives three notes: the first holds the rooms joined
\* by ", " in their order, the other two are fixed.
C8_ThreeRoomNotes ==
    Proposed =>
        LET notes == Items(proposal.room_planning_notes)
        IN  /\ Len(notes) = 3
            /\ Contains(notes[1], Join(", ", inputs.required_rooms))
            /\ notes[2] = "Keep kitchen, dining, and family spaces connected; isolate acoustic-sensitive spaces."
            /\ notes[3] = "Plan storage early: pantry, linen, utility, and integrated wardrobes."

C8_Witness ==
    /\ pc = "proposed"
    /\ inputs.required_rooms = <<"3 bedrooms", "2 bathrooms">>
    /\ Contains(Items(proposal.room_planning_notes)[1], "3 bedrooms, 2 bathrooms")

IsBlank(s) == \A i \in 1..Len(s) : Char(s, i) \in WHITESPACE

\* list holds the segments of arg that are not blank, trimmed, in their order.
IsParsedList(list, arg) ==
    LET segments == Split(arg)
        kept == {i \in 1..Len(segments) : ~IsBlank(segments[i])}
    IN  /\ Len(list) = Cardinality(kept)
        /\ \A i \in kept :
               list[Cardinality({j \in kept : j <= i})] = Strip(segments[i])
        /\ \A k \in 1..Len(list) :
               /\ ~IsBlank(list[k])
               /\ Char(list[k], 1) \notin WHITESPACE
               /\ Char(list[k], Len(list[k])) \notin WHITESPACE
        /\ (\A i \in 1..Len(arg) : Char(arg, i) \in WHITESPACE \cup {","}) => list = <<>>

\* C9: --images and --rooms become the lists of their non-blank comma-separated
\* segments, trimmed, in order; an --images value of commas and whitespace
\* gives no image and so the confidence "medium".
C9_CommaListsParsed ==
    pc # "idle" =>
        /\ IsParsedList(inputs.image_descriptions, args.images)
        /\ IsParsedList(inputs.required_rooms, args.rooms)
        /\ (Proposed /\ \A i \in 1..Len(args.images) :
                            Char(args.images, i) \in WHITESPACE \cup {","})
               => proposal.style_confidence = "medium"

C9_Witness ==
    /\ pc = "proposed"
    /\ args.images = ", ,"
    /\ inputs.image_descriptions = <<>>
    /\ args.rooms = "den\t, wc ,"
    /\ inputs.required_rooms = <<"den", "wc">>
    /\ proposal.style_confidence = "medium"

\* C10: the score of a style is the number of its keywords that occur in the
\* lowercased combined text, each counted once, and never more than the style
\* has keywords.
C10_ScoreCountsMatchedKeywords ==
    Proposed =>
        /\ Len(scores) = Len(STYLE_KEYWORDS)
        /\ \A text \in {RequestText}, i \in 1..Len(STYLE_KEYWORDS) :
               /\ scores[i].style = TableOrder[i]
               /\ scores[i].score = Cardinality(Matched(i, text))
               /\ scores[i].score <= Len(KeywordsOf(i))

\* A keyword three times, and a keyword inside a longer, capitalised word.
C10_Witness ==
    /\ pc = "proposed"
    /\ inputs.brief = "glass glass glass"
    /\ inputs.image_descriptions = <<"Hardwood barn">>
    /\ ScoreOf(scores, "modern") = 1
    /\ ScoreOf(scores, "craftsman") = 1
    /\ proposal.selected_style = "modern"

====
